---- MODULE Spec2Model ----
(***************************************************************************)
(* State-machine model of better-playwright/main.py: the browser lifespan  *)
(* (app_lifespan) and the four tool coroutines getElement, navigate,       *)
(* getSnapshot and fillInput running against the one shared page.          *)
(*                                                                         *)
(* Python strings are modelled as sequences of string tokens: a literal    *)
(* piece of an f-string is one token, a raw selector value is a sequence   *)
(* of one-character tokens, so that interpolation is concatenation and     *)
(* "contains" is a sub-sequence test.                                      *)
(***************************************************************************)
EXTENDS Integers, Sequences, FiniteSets, TLC

\* ---------------------------------------------------------------- bounds
\* Longest raw selector value drawn for a request.
MaxLen == 1
\* Number of documents the page may load after about:blank.
MaxNav == 2

\* ------------------------------------------------------ inputs (requests)
Calls == {1, 2}
Chars == {"a", "'"}
None == "None"

RECURSIVE SeqsUpTo(_)
SeqsUpTo(n) ==
  IF n = 0 THEN {<< >>}
  ELSE LET S == SeqsUpTo(n - 1)
       IN  S \cup {Append(s, ch) : s \in {t \in S : Len(t) = n - 1}, ch \in Chars}

RawValues == SeqsUpTo(MaxLen) \ {<< >>}

SelectorKinds == {"className", "id", "text", "placeholder", "label"}
AnyKinds == SelectorKinds \cup {"bogus"}
ElementActions == {"click", "getText", "extractLinks", "getRawElement", "type"}
AnyActions == ElementActions \cup {"bogus"}
NavTypes == {"url", "back", "forward", "refresh"}
AnyNavTypes == NavTypes \cup {"bogus"}
SnapTypes == {"accessibility", "image"}
AnySnapTypes == SnapTypes \cup {"bogus"}
Urls == {"u1"}
Blank == "about:blank"

NoReq == [op |-> "none", type |-> None, selector |-> << >>, action |-> None, arg |-> None]

\* ElementActionInput; text (arg) is only read by the 'type' action.
ElementActionInput ==
  {[op |-> "getElement", type |-> k, selector |-> v, action |-> a, arg |-> t] :
      k \in AnyKinds, v \in RawValues, a \in AnyActions, t \in {None, "x"}}

NavigateInput ==
  {[op |-> "navigate", type |-> k, selector |-> << >>, action |-> None, arg |-> u] :
      k \in AnyNavTypes, u \in Urls \cup {None}}

SnapshotInput ==
  {[op |-> "getSnapshot", type |-> k, selector |-> << >>, action |-> None, arg |-> None] :
      k \in AnySnapTypes}

FillInputInput ==
  {[op |-> "fillInput", type |-> k, selector |-> v, action |-> None, arg |-> "x"] :
      k \in AnyKinds, v \in RawValues}

\* Every request a tool function can be handed, including the malformed ones
\* that reach it only when the input model's own validation is bypassed.
Requests ==
  {r \in ElementActionInput : r.action # "type" => r.arg = None}
    \cup NavigateInput \cup SnapshotInput \cup FillInputInput

\* Well-formed requests against the element the document at u1 holds.
SmallRequests ==
  {r \in Requests :
     /\ r.op \in {"getElement", "fillInput"} => r.type = "id" /\ r.selector = <<"a">>
     /\ r.op = "getElement" => r.action \in ElementActions
     /\ r.op = "navigate" => r.type \in NavTypes /\ r.arg # None
     /\ r.op = "getSnapshot" => r.type \in SnapTypes}

NavigateRequests == {r \in Requests : r.op = "navigate" /\ r.type \in NavTypes /\ r.arg # None}

\* ----------------------------------------------------------------- state
VARIABLES
  lpc,          \* position of app_lifespan
  failedAt,     \* the step whose exception left app_lifespan ("none" if none)
  pw,           \* engine client: "none" | "running" | "stopped"
  browser,      \* browser handle: "none" | "open" | "closed"
  via,          \* how the handle was obtained: "none" | "cdp" | "launch"
  context,      \* browsing context: "none" | "open" | "closed"
  pageObj,      \* page object: "none" | "open"
  attachCount, launchCount, ctxCount, pageCount,
  attachRaised, \* connect_over_cdp raised
  attempted,    \* release steps attempted so far, in order
  session,      \* the yielded AppContext (object ids), or NoSession
  alive,        \* the browser process / connection is still usable
  hist, pos,    \* the page's session history and the current entry
  gen,          \* id of the document currently loaded in the page
  field,        \* content of the current document's input field
  pc, req, sel, elem, result

lifeVars == <<lpc, failedAt, pw, browser, via, context, pageObj, attachCount,
              launchCount, ctxCount, pageCount, attachRaised, attempted, session>>
pageVars == <<alive, hist, pos, gen, field>>
callVars == <<pc, req, sel, elem, result>>
vars == <<lifeVars, pageVars, callVars>>

NoSession == [browser |-> 0, context |-> 0, page |-> 0]
NoResult == [kind |-> "unset", text |-> << >>]
NoElem == -1

Init ==
  /\ lpc = "start" /\ failedAt = "none"
  /\ pw = "none" /\ browser = "none" /\ via = "none"
  /\ context = "none" /\ pageObj = "none"
  /\ attachCount = 0 /\ launchCount = 0 /\ ctxCount = 0 /\ pageCount = 0
  /\ attachRaised = FALSE /\ attempted = << >>
  /\ session = NoSession
  /\ alive = TRUE /\ hist = <<Blank>> /\ pos = 1 /\ gen = 0 /\ field = << >>
  /\ pc = [c \in Calls |-> "idle"]
  /\ req = [c \in Calls |-> NoReq]
  /\ sel = [c \in Calls |-> << >>]
  /\ elem = [c \in Calls |-> NoElem]
  /\ result = [c \in Calls |-> NoResult]

\* ------------------------------------------------------------ app_lifespan
\* An exception leaves app_lifespan at `step`: nothing after it runs.
Propagate(step) ==
  /\ lpc' = "failed"
  /\ failedAt' = step

\* line 44: playwright = await async_playwright().start()
StartPlaywright ==
  /\ lpc = "start"
  /\ \/ /\ pw' = "running" /\ lpc' = "attach" /\ UNCHANGED failedAt
     \/ /\ Propagate("start") /\ UNCHANGED pw
  /\ UNCHANGED <<browser, via, context, pageObj, attachCount, launchCount, ctxCount,
                 pageCount, attachRaised, attempted, session>>
  /\ UNCHANGED <<pageVars, callVars>>

\* A variant that tries the attach again instead of falling back.
AfterAttachRaisedRetry == "attach"

\* Where the except clause of lines 54-61 sends control when attach raises.
AfterAttachRaised == "launch"

\* lines 50-55: try: browser = await playwright.chromium.connect_over_cdp(cdp_url)
Attach ==
  /\ lpc = "attach"
  /\ attachCount' = attachCount + 1
  /\ \/ /\ browser' = "open" /\ via' = "cdp" /\ lpc' = "new_context"
        /\ UNCHANGED attachRaised
     \/ /\ attachRaised' = TRUE /\ lpc' = AfterAttachRaised
        /\ UNCHANGED <<browser, via>>
  /\ UNCHANGED <<failedAt, pw, context, pageObj, launchCount, ctxCount, pageCount,
                 attempted, session>>
  /\ UNCHANGED <<pageVars, callVars>>

\* lines 56-61: the fallback launch inside the except clause; its own exception
\* is not caught.
Launch ==
  /\ lpc = "launch"
  /\ launchCount' = launchCount + 1
  /\ \/ /\ browser' = "open" /\ via' = "launch" /\ lpc' = "new_context"
        /\ UNCHANGED failedAt
     \/ /\ Propagate("launch") /\ UNCHANGED <<browser, via>>
  /\ UNCHANGED <<pw, context, pageObj, attachCount, ctxCount, pageCount,
                 attachRaised, attempted, session>>
  /\ UNCHANGED <<pageVars, callVars>>

\* A variant that adopts the attached browser's existing context instead of
\* creating one.
NewContextReuse ==
  /\ lpc = "new_context"
  /\ \/ /\ context' = "open" /\ lpc' = "new_page"
        /\ ctxCount' = IF via = "cdp" THEN ctxCount ELSE ctxCount + 1
        /\ UNCHANGED failedAt
     \/ /\ Propagate("new_context") /\ UNCHANGED <<context, ctxCount>>
  /\ UNCHANGED <<pw, browser, via, pageObj, attachCount, launchCount, pageCount,
                 attachRaised, attempted, session>>
  /\ UNCHANGED <<pageVars, callVars>>

\* line 63: context = await browser.new_context()
NewContext ==
  /\ lpc = "new_context"
  /\ \/ /\ context' = "open" /\ ctxCount' = ctxCount + 1 /\ lpc' = "new_page"
        /\ UNCHANGED failedAt
     \/ /\ Propagate("new_context") /\ UNCHANGED <<context, ctxCount>>
  /\ UNCHANGED <<pw, browser, via, pageObj, attachCount, launchCount, pageCount,
                 attachRaised, attempted, session>>
  /\ UNCHANGED <<pageVars, callVars>>

\* lines 64-67: page = await context.new_page(); yield AppContext(...)
NewPage ==
  /\ lpc = "new_page"
  /\ \/ /\ pageObj' = "open" /\ pageCount' = pageCount + 1 /\ lpc' = "serving"
        /\ session' = [browser |-> 1, context |-> ctxCount, page |-> pageCount + 1]
        /\ UNCHANGED failedAt
     \/ /\ Propagate("new_page") /\ UNCHANGED <<pageObj, pageCount, session>>
  /\ UNCHANGED <<pw, browser, via, context, attachCount, launchCount, ctxCount,
                 attachRaised, attempted>>
  /\ UNCHANGED <<pageVars, callVars>>

\* line 68: the generator is resumed (or closed) at the yield and finally starts.
\* The host leaves the lifespan only once its request handlers have finished or
\* been cancelled, so no tool coroutine is left running.
Shutdown ==
  /\ lpc = "serving"
  /\ lpc' = "context_close"
  /\ pc' = [c \in Calls |-> "idle"]
  /\ req' = [c \in Calls |-> NoReq]
  /\ sel' = [c \in Calls |-> << >>]
  /\ elem' = [c \in Calls |-> NoElem]
  /\ result' = [c \in Calls |-> NoResult]
  /\ UNCHANGED <<failedAt, pw, browser, via, context, pageObj, attachCount, launchCount,
                 ctxCount, pageCount, attachRaised, attempted, session>>
  /\ UNCHANGED pageVars

\* Where the finally block goes when a release step raises: the awaits of lines
\* 70-72 are plain statements, so the exception leaves the block.
AfterReleaseRaised(step) == "failed"

\* line 70: await context.close()
ContextClose ==
  /\ lpc = "context_close"
  /\ attempted' = Append(attempted, "context_close")
  /\ \/ /\ context' = "closed" /\ lpc' = "browser_close" /\ UNCHANGED failedAt
     \/ /\ lpc' = AfterReleaseRaised("context_close")
        /\ failedAt' = "context_close" /\ UNCHANGED context
  /\ UNCHANGED <<pw, browser, via, pageObj, attachCount, launchCount, ctxCount,
                 pageCount, attachRaised, session>>
  /\ UNCHANGED <<pageVars, callVars>>

\* line 71: await browser.close()
BrowserClose ==
  /\ lpc = "browser_close"
  /\ attempted' = Append(attempted, "browser_close")
  /\ \/ /\ browser' = "closed" /\ lpc' = "playwright_stop" /\ UNCHANGED failedAt
     \/ /\ lpc' = AfterReleaseRaised("browser_close")
        /\ failedAt' = "browser_close" /\ UNCHANGED browser
  /\ UNCHANGED <<pw, via, context, pageObj, attachCount, launchCount, ctxCount,
                 pageCount, attachRaised, session>>
  /\ UNCHANGED <<pageVars, callVars>>

\* line 72: await playwright.stop()
PlaywrightStop ==
  /\ lpc = "playwright_stop"
  /\ attempted' = Append(attempted, "playwright_stop")
  /\ \/ /\ pw' = "stopped" /\ lpc' = "exited" /\ UNCHANGED failedAt
     \/ /\ Propagate("playwright_stop") /\ UNCHANGED pw
  /\ UNCHANGED <<browser, via, context, pageObj, attachCount, launchCount, ctxCount,
                 pageCount, attachRaised, session>>
  /\ UNCHANGED <<pageVars, callVars>>

Lifespan ==
  \/ StartPlaywright \/ Attach \/ Launch \/ NewContext \/ NewPage
  \/ Shutdown \/ ContextClose \/ BrowserClose \/ PlaywrightStop


\* --------------------------------------------------------- strings, results
Str(t) == [kind |-> "str", text |-> t]
\* A coroutine that falls off its end returns Python's None, not a string.
PyNone == [kind |-> "None", text |-> << >>]

\* sub occurs in s as a contiguous run of tokens
Contains(s, sub) ==
  \E i \in 0..(Len(s) - Len(sub)) : SubSeq(s, i + 1, i + Len(sub)) = sub

\* lines 150-159: getElement's selector chain (three kinds).
GetElementSelector(kind, v) ==
  CASE kind = "className" -> [ok |-> TRUE, sel |-> <<".">> \o v]
    [] kind = "id"        -> [ok |-> TRUE, sel |-> <<"#">> \o v]
    [] kind = "text"      -> [ok |-> TRUE, sel |-> <<"text=">> \o v]
    [] OTHER              -> [ok |-> FALSE, sel |-> << >>]

\* A variant that backslash-escapes quotes in the raw value.
Escaped(v) == [i \in 1..Len(v) |-> IF v[i] = "'" THEN "\\'" ELSE v[i]]
FillInputSelectorEscaped(kind, v) ==
  CASE kind = "className"   -> [ok |-> TRUE, sel |-> <<".">> \o v]
    [] kind = "id"          -> [ok |-> TRUE, sel |-> <<"#">> \o v]
    [] kind = "text"        -> [ok |-> TRUE, sel |-> <<"text=">> \o v]
    [] kind = "placeholder" -> [ok |-> TRUE, sel |-> <<"[placeholder='">> \o Escaped(v) \o <<"']">>]
    [] kind = "label"       -> [ok |-> TRUE, sel |-> <<"label:text('">> \o Escaped(v) \o <<"') >> input">>]
    [] OTHER                -> [ok |-> FALSE, sel |-> << >>]

\* lines 297-308: fillInput's selector chain (five kinds).
FillInputSelector(kind, v) ==
  CASE kind = "className"   -> [ok |-> TRUE, sel |-> <<".">> \o v]
    [] kind = "id"          -> [ok |-> TRUE, sel |-> <<"#">> \o v]
    [] kind = "text"        -> [ok |-> TRUE, sel |-> <<"text=">> \o v]
    [] kind = "placeholder" -> [ok |-> TRUE, sel |-> <<"[placeholder='">> \o v \o <<"']">>]
    [] kind = "label"       -> [ok |-> TRUE, sel |-> <<"label:text('">> \o v \o <<"') >> input">>]
    [] OTHER                -> [ok |-> FALSE, sel |-> << >>]

\* lines 157-159
InvalidElementType(kind) ==
  <<"Error: Invalid type '", kind, "'. Must be 'className', 'id', or 'text'">>
\* line 308
InvalidFillType(kind) ==
  <<"Error: Invalid type '", kind,
    "'. Must be 'className', 'id', 'text', 'placeholder', or 'label'">>
\* line 216
InvalidAction(a) ==
  <<"Error: Invalid action '", a,
    "'. Must be 'click', 'getText', 'extractLinks', 'getRawElement', or 'type'">>
\* line 248
InvalidNavType(k) ==
  <<"Error: Invalid navigation type '", k,
    "'. Must be 'url', 'back', 'forward', or 'refresh'">>
\* line 208
TextRequired == <<"Error: 'text' parameter is required when action is 'type'">>
\* line 231
UrlRequired == <<"Error: url parameter is required when type is 'url'">>
\* line 164
NotFound(selector) == <<"Element not found with selector: ">> \o selector

\* The except clauses: lines 218-219, 250-251, 286-287, 315-316.
ErrorMsg(r, e) ==
  CASE r.op = "getElement"  -> <<"Error performing action '", r.action, "' on element: ">> \o e
    [] r.op = "navigate"    -> <<"Error performing navigation '", r.type, "': ">> \o e
    [] r.op = "getSnapshot" -> <<"Error capturing ", r.type, " snapshot: ">> \o e
    [] r.op = "fillInput"   -> <<"Error filling input field: ">> \o e

\* The awaits each try block encloses: lines 161-219, 228-251, 260-287, 310-316.
TrySteps(op) ==
  CASE op = "getElement"  -> {"query", "click", "getText", "links", "linkattrs",
                              "raw", "clear", "type"}
    [] op = "navigate"    -> {"nav"}
    [] op = "getSnapshot" -> {"a11y", "shot"}
    [] op = "fillInput"   -> {"fill"}

\* A variant whose try block starts one await late.
GuardedAfterFirst(op, step) == step \in TrySteps(op) \ {"query", "nav", "a11y", "fill"}

\* Whether the await at `step` of tool `op` sits inside the tool's try block.
Guarded(op, step) == step \in TrySteps(op)

\* ------------------------------------------------- the automation library
\* Descriptions of the exceptions the library raises (its text, not this
\* program's).
TargetClosed == <<"Target page, context or browser has been closed">>
Detached == <<"Element is not attached to the DOM">>
NavTimeout == <<"Timeout 30000ms exceeded.">>
\* page.fill on a selector that never matches times out; whether the library's
\* text quotes the selector is the library's choice.
FillTimeouts(selector) ==
  {<<"Timeout 30000ms exceeded.">>,
   <<"Timeout 30000ms exceeded. waiting for locator ">> \o selector}

\* get_active_page: the page of the lifespan context.
get_active_page == session.page

\* Calls on the page can succeed only while the whole chain is up.
Usable ==
  /\ alive /\ pw = "running" /\ browser = "open" /\ context = "open"
  /\ pageObj = "open" /\ get_active_page = pageCount

\* The document at u1 holds one input whose class, id, text, placeholder and
\* label are all "a"; about:blank holds nothing.
Matches(url, selector) ==
  /\ url = "u1"
  /\ selector \in {<<".", "a">>, <<"#", "a">>, <<"text=", "a">>,
                    <<"[placeholder='", "a", "']">>,
                    <<"label:text('", "a", "') >> input">>}

CurUrl == hist[pos]
ElemText == "txt"
\* the anchors under the matched element: one with an href, one without
Links == <<"{href: ", "h1", ", text: ", "t1", "}", "{href: ", "null", ", text: ", "t2", "}">>

\* ---------------------------------------------------------- tool coroutines
Finish(c, r) ==
  /\ pc' = [pc EXCEPT ![c] = "done"]
  /\ result' = [result EXCEPT ![c] = r]

\* An automation call of coroutine c raised e at `step`.
Raise(c, step, e) ==
  IF Guarded(req[c].op, step)
  THEN Finish(c, Str(ErrorMsg(req[c], e)))
  ELSE /\ pc' = [pc EXCEPT ![c] = "raised"]
       /\ UNCHANGED result

\* The dispatcher calls a tool: the coroutine runs to its first await (or returns).
StartCall(c, r) ==
  /\ lpc = "serving"
  /\ pc[c] = "idle"
  /\ req' = [req EXCEPT ![c] = r]
  /\ elem' = elem
  /\ CASE r.op = "getElement" ->
            LET b == GetElementSelector(r.type, r.selector)
            IN  IF b.ok
                THEN /\ sel' = [sel EXCEPT ![c] = b.sel]
                     /\ pc' = [pc EXCEPT ![c] = "query"]
                     /\ UNCHANGED result
                ELSE /\ Finish(c, Str(InvalidElementType(r.type)))
                     /\ UNCHANGED sel
       [] r.op = "fillInput" ->
            LET b == FillInputSelector(r.type, r.selector)
            IN  IF b.ok
                THEN /\ sel' = [sel EXCEPT ![c] = b.sel]
                     /\ pc' = [pc EXCEPT ![c] = "fill"]
                     /\ UNCHANGED result
                ELSE /\ Finish(c, Str(InvalidFillType(r.type)))
                     /\ UNCHANGED sel
       [] r.op = "navigate" ->
            /\ UNCHANGED sel
            /\ IF r.type = "url" /\ r.arg = None THEN Finish(c, Str(UrlRequired))
               ELSE IF r.type \in NavTypes
                    THEN pc' = [pc EXCEPT ![c] = "nav"] /\ UNCHANGED result
                    ELSE Finish(c, Str(InvalidNavType(r.type)))
       [] r.op = "getSnapshot" ->
            /\ UNCHANGED sel
            /\ IF r.type = "accessibility"
               THEN pc' = [pc EXCEPT ![c] = "a11y"] /\ UNCHANGED result
               ELSE IF r.type = "image"
                    THEN pc' = [pc EXCEPT ![c] = "shot"] /\ UNCHANGED result
                    ELSE Finish(c, PyNone)
  /\ UNCHANGED <<lifeVars, pageVars>>

\* lines 162-216: query_selector returns, then the action chain runs to its
\* first await.
GetElementQuery(c) ==
  /\ pc[c] = "query"
  /\ UNCHANGED <<lifeVars, pageVars, req, sel>>
  /\ IF ~Usable THEN Raise(c, "query", TargetClosed) /\ UNCHANGED elem
     ELSE IF ~Matches(CurUrl, sel[c])
     THEN Finish(c, Str(NotFound(sel[c]))) /\ UNCHANGED elem
     ELSE /\ elem' = [elem EXCEPT ![c] = gen]
          /\ LET a == req[c].action
             IN  CASE a = "click" -> pc' = [pc EXCEPT ![c] = "click"] /\ UNCHANGED result
                   [] a = "getText" -> pc' = [pc EXCEPT ![c] = "getText"] /\ UNCHANGED result
                   [] a = "extractLinks" -> pc' = [pc EXCEPT ![c] = "links"] /\ UNCHANGED result
                   [] a = "getRawElement" -> pc' = [pc EXCEPT ![c] = "raw"] /\ UNCHANGED result
                   [] a = "type" ->
                        IF req[c].arg = None THEN Finish(c, Str(TextRequired))
                        ELSE pc' = [pc EXCEPT ![c] = "clear"] /\ UNCHANGED result
                   [] OTHER -> Finish(c, Str(InvalidAction(a)))

\* The exception an element-handle call raises, if any: the connection is gone,
\* or the handle belongs to a document the page has left.
HandleError(c) ==
  IF ~Usable THEN TargetClosed ELSE IF elem[c] # gen THEN Detached ELSE << >>

\* lines 168-169
GetElementClick(c) ==
  /\ pc[c] = "click"
  /\ UNCHANGED <<lifeVars, pageVars, req, sel, elem>>
  /\ IF HandleError(c) # << >> THEN Raise(c, "click", HandleError(c))
     ELSE Finish(c, Str(<<"Successfully clicked element with selector: ">> \o sel[c]))

\* lines 172-176
GetElementText(c) ==
  /\ pc[c] = "getText"
  /\ UNCHANGED <<lifeVars, pageVars, req, sel, elem>>
  /\ IF HandleError(c) # << >> THEN Raise(c, "getText", HandleError(c))
     ELSE Finish(c, Str(<<"{action: getText, selector: ">> \o sel[c]
                          \o <<", text: ", ElemText, "}">>))

\* line 180: links = await element.query_selector_all("a")
GetElementLinks(c) ==
  /\ pc[c] = "links"
  /\ UNCHANGED <<lifeVars, pageVars, req, sel, elem>>
  /\ IF HandleError(c) # << >> THEN Raise(c, "links", HandleError(c))
     ELSE pc' = [pc EXCEPT ![c] = "linkattrs"] /\ UNCHANGED result

\* lines 181-190: the loop's reads (get_attribute, text_content per anchor, in
\* document order) and the payload.
GetElementLinkAttrs(c) ==
  /\ pc[c] = "linkattrs"
  /\ UNCHANGED <<lifeVars, pageVars, req, sel, elem>>
  /\ IF HandleError(c) # << >> THEN Raise(c, "linkattrs", HandleError(c))
     ELSE Finish(c, Str(<<"{action: extractLinks, selector: ">> \o sel[c]
                          \o <<", links: [">> \o Links \o <<"]}">>))

\* lines 193-204: the five reads of getRawElement and the payload.
GetElementRaw(c) ==
  /\ pc[c] = "raw"
  /\ UNCHANGED <<lifeVars, pageVars, req, sel, elem>>
  /\ IF HandleError(c) # << >> THEN Raise(c, "raw", HandleError(c))
     ELSE Finish(c, Str(<<"{action: getRawElement, selector: ">> \o sel[c]
                          \o <<", tag_name: ", "input", ", text_content: ", ElemText,
                               ", visible: ", "true", ", enabled: ", "true",
                               ", attributes: ", "{...}", "}">>))

\* A variant that clears and types in one uninterrupted step.
GetElementClearAndType(c) ==
  /\ pc[c] = "clear"
  /\ UNCHANGED <<lifeVars, alive, hist, pos, gen, req, sel, elem>>
  /\ IF HandleError(c) # << >> THEN Raise(c, "clear", HandleError(c)) /\ UNCHANGED field
     ELSE /\ field' = <<req[c].arg>>
          /\ Finish(c, Str(<<"Successfully typed '", req[c].arg,
                             "' into element with selector: ">> \o sel[c]))

\* line 211: await element.clear()
GetElementClear(c) ==
  /\ pc[c] = "clear"
  /\ UNCHANGED <<lifeVars, alive, hist, pos, gen, req, sel, elem>>
  /\ IF HandleError(c) # << >> THEN Raise(c, "clear", HandleError(c)) /\ UNCHANGED field
     ELSE /\ field' = << >>
          /\ pc' = [pc EXCEPT ![c] = "type"]
          /\ UNCHANGED result

\* lines 212-213: await element.type(input.text)
GetElementType(c) ==
  /\ pc[c] = "type"
  /\ UNCHANGED <<lifeVars, alive, hist, pos, gen, req, sel, elem>>
  /\ IF HandleError(c) # << >> THEN Raise(c, "type", HandleError(c)) /\ UNCHANGED field
     ELSE /\ field' = Append(field, req[c].arg)
          /\ Finish(c, Str(<<"Successfully typed '", req[c].arg,
                             "' into element with selector: ">> \o sel[c]))

\* A navigation committed: a new document replaces the current one.
NewDocument ==
  /\ gen' = gen + 1
  /\ field' = << >>

\* lines 229-245: the one navigation call of the request, then its message.
NavigateStep(c) ==
  /\ pc[c] = "nav"
  /\ UNCHANGED <<lifeVars, alive, req, sel, elem>>
  /\ LET k == req[c].type
     IN  IF ~Usable
         THEN Raise(c, "nav", TargetClosed) /\ UNCHANGED <<hist, pos, gen, field>>
         ELSE \/ Raise(c, "nav", NavTimeout) /\ UNCHANGED <<hist, pos, gen, field>>
              \/ /\ gen < MaxNav
                 /\ CASE k = "url" ->
                           /\ hist' = Append(SubSeq(hist, 1, pos), req[c].arg)
                           /\ pos' = pos + 1
                           /\ NewDocument
                           /\ Finish(c, Str(<<"Successfully navigated to ", req[c].arg>>))
                      [] k = "back" ->
                           /\ IF pos > 1
                              THEN pos' = pos - 1 /\ NewDocument
                              ELSE UNCHANGED <<pos, gen, field>>
                           /\ UNCHANGED hist
                           /\ Finish(c, Str(<<"Successfully navigated back">>))
                      [] k = "forward" ->
                           /\ IF pos < Len(hist)
                              THEN pos' = pos + 1 /\ NewDocument
                              ELSE UNCHANGED <<pos, gen, field>>
                           /\ UNCHANGED hist
                           /\ Finish(c, Str(<<"Successfully navigated forward">>))
                      [] k = "refresh" ->
                           /\ NewDocument
                           /\ UNCHANGED <<hist, pos>>
                           /\ Finish(c, Str(<<"Successfully refreshed the page">>))

\* lines 261-266
SnapshotAccessibility(c) ==
  /\ pc[c] = "a11y"
  /\ UNCHANGED <<lifeVars, pageVars, req, sel, elem>>
  /\ IF ~Usable THEN Raise(c, "a11y", TargetClosed)
     ELSE Finish(c, Str(<<"{type: accessibility, snapshot: ", "tree of ", CurUrl, "}">>))

\* lines 268-284
SnapshotImage(c) ==
  /\ pc[c] = "shot"
  /\ UNCHANGED <<lifeVars, pageVars, req, sel, elem>>
  /\ IF ~Usable THEN Raise(c, "shot", TargetClosed)
     ELSE Finish(c, Str(<<"{type: image, format: ", "jpeg", ", data: ", "base64 of ",
                          CurUrl, ", encoding: ", "base64", "}">>))

\* lines 310-316: await page.fill(selector, input.value)
FillInputFill(c) ==
  /\ pc[c] = "fill"
  /\ UNCHANGED <<lifeVars, alive, hist, pos, gen, req, sel, elem>>
  /\ IF ~Usable THEN Raise(c, "fill", TargetClosed) /\ UNCHANGED field
     ELSE IF ~Matches(CurUrl, sel[c])
     THEN /\ \E e \in FillTimeouts(sel[c]) : Raise(c, "fill", e)
          /\ UNCHANGED field
     ELSE /\ field' = <<req[c].arg>>
          /\ Finish(c, Str(<<"Successfully filled '", req[c].arg,
                             "' into input field with selector: ">> \o sel[c]))

\* The dispatcher delivers the returned value; the slot serves the next call.
Return(c) ==
  /\ pc[c] = "done"
  /\ pc' = [pc EXCEPT ![c] = "idle"]
  /\ req' = [req EXCEPT ![c] = NoReq]
  /\ sel' = [sel EXCEPT ![c] = << >>]
  /\ elem' = [elem EXCEPT ![c] = NoElem]
  /\ result' = [result EXCEPT ![c] = NoResult]
  /\ UNCHANGED <<lifeVars, pageVars>>

\* The browser process dies or the connection drops mid-session.
Crash ==
  /\ lpc = "serving"
  /\ alive
  /\ alive' = FALSE
  /\ UNCHANGED <<lifeVars, hist, pos, gen, field, callVars>>

\* Every step the coroutine of slot c can take, its requests drawn from R.
Tool(c, R) ==
  \/ \E r \in R : StartCall(c, r)
  \/ GetElementQuery(c) \/ GetElementClick(c) \/ GetElementText(c)
  \/ GetElementLinks(c) \/ GetElementLinkAttrs(c) \/ GetElementRaw(c)
  \/ GetElementClear(c) \/ GetElementType(c)
  \/ NavigateStep(c)
  \/ SnapshotAccessibility(c) \/ SnapshotImage(c)
  \/ FillInputFill(c)
  \/ Return(c)

\* Two tool calls in flight at once, well-formed requests.
Next == Lifespan \/ Crash \/ \E c \in Calls : Tool(c, SmallRequests)
Spec == Init /\ [][Next]_vars

\* Every request shape on slot 1, with navigations in flight on slot 2.
NextInputs == Lifespan \/ Crash \/ Tool(1, Requests) \/ Tool(2, NavigateRequests)
SpecInputs == Init /\ [][NextInputs]_vars

\* ------------------------------------------------------------------ claims
ReleaseOrder == <<"context_close", "browser_close", "playwright_stop">>
Released == lpc \in {"exited", "failed"} /\ attempted # << >>

\* C1: once release has run to its end, whether or not a step raised, context
\* close, browser close and engine-client stop have all been attempted, in
\* that order.
C1_ReleaseAttemptsEveryStep ==
  Released => attempted = ReleaseOrder

\* C2: when session acquisition fails after the engine client was started, no
\* acquired resource is left behind: the browser handle, if obtained, is closed
\* and the engine client is stopped.
C2_StartupFailureReleases ==
  failedAt \in {"launch", "new_context", "new_page"} =>
    /\ browser # "open"
    /\ pw # "running"

Yielded == session # NoSession

\* C3: attach is attempted exactly once; launch is attempted iff the attach
\* raised, and at most once; a failed launch aborts startup with no Session;
\* once a Session is yielded the counts never move again, and a dead browser
\* only turns tool calls into returned strings.
C3_SingleAttachThenLaunch ==
  /\ attachCount <= 1 /\ launchCount <= 1
  /\ (lpc \notin {"start", "attach"} /\ failedAt # "start") => attachCount = 1
  /\ launchCount = 1 => attachRaised
  /\ (attachRaised /\ lpc # "launch") => launchCount = 1
  /\ failedAt = "launch" => (lpc = "failed" /\ ~Yielded)
  /\ Yielded => /\ attachCount = 1
                /\ launchCount = (IF attachRaised THEN 1 ELSE 0)
                /\ via = (IF attachRaised THEN "launch" ELSE "cdp")
  /\ \A c \in Calls : pc[c] # "raised"

C3_Witness ==
  /\ lpc = "serving" /\ via = "launch" /\ ~alive
  /\ attachCount = 1 /\ launchCount = 1
  /\ \E c \in Calls : /\ pc[c] = "done"
                      /\ result[c] = Str(ErrorMsg(req[c], TargetClosed))

\* C4: on either acquisition path exactly one context and one page are created,
\* and while the Session is being served its browser, context and page are
\* those same open objects, whatever tool calls have run.
C4_OneContextOnePage ==
  /\ ctxCount <= 1 /\ pageCount <= 1
  /\ lpc = "serving" =>
       /\ ctxCount = 1 /\ pageCount = 1
       /\ session = [browser |-> 1, context |-> 1, page |-> 1]
       /\ browser = "open" /\ context = "open" /\ pageObj = "open"

C4_Witness ==
  /\ lpc = "serving" /\ via = "cdp" /\ gen = MaxNav
  /\ \E c, d \in Calls :
       /\ pc[c] = "done" /\ req[c].op = "navigate"
       /\ result[c] = Str(ErrorMsg(req[c], NavTimeout))
       /\ pc[d] = "done" /\ req[d].op = "fillInput"
       /\ Head(result[d].text) = "Successfully filled '"

\* The wording by which each tool's error message names the operation.
OpWording(op) ==
  CASE op = "getElement"  -> "Error performing action '"
    [] op = "navigate"    -> "Error performing navigation '"
    [] op = "getSnapshot" -> "Error capturing "
    [] op = "fillInput"   -> "Error filling input field: "

AwaitSteps == {"query", "click", "getText", "links", "linkattrs", "raw", "clear",
               "type", "nav", "a11y", "shot", "fill"}

\* The exception the automation call pending in slot c is bound to raise.
BoundToRaise(c) ==
  IF ~Usable THEN TargetClosed
  ELSE IF pc[c] \in {"click", "getText", "links", "linkattrs", "raw", "clear", "type"}
          /\ elem[c] # gen
       THEN Detached
       ELSE << >>

\* C5: no tool call ever ends with a propagated exception, and whenever the
\* automation call a tool is waiting on raises, the tool returns a plain string
\* that starts with the operation's wording and carries the exception's
\* description.
C5_ExceptionsBecomeStrings ==
  [][\A c \in Calls :
       /\ pc'[c] # "raised"
       /\ (pc[c] \in AwaitSteps /\ pc'[c] # pc[c] /\ lpc' = "serving"
             /\ BoundToRaise(c) # << >>) =>
            /\ pc'[c] = "done"
            /\ result'[c].kind = "str"
            /\ Head(result'[c].text) = OpWording(req[c].op)
            /\ Contains(result'[c].text, BoundToRaise(c))
       /\ (pc'[c] = "done" /\ pc[c] # "done" /\ result'[c].kind = "str"
             /\ \E e \in {TargetClosed, Detached, NavTimeout} :
                   Contains(result'[c].text, e)) =>
            Head(result'[c].text) = OpWording(req[c].op)]_vars

C5_Witness ==
  /\ ~alive
  /\ \E c, d \in Calls :
       /\ pc[c] = "done" /\ req[c].op = "getSnapshot"
       /\ result[c] = Str(<<"Error capturing ", req[c].type, " snapshot: ">> \o TargetClosed)
       /\ pc[d] = "done" /\ req[d].op = "getElement" /\ req[d].action = "type"
       /\ result[d] = Str(<<"Error performing action '", "type", "' on element: ">>
                            \o TargetClosed)

\* C6: getElement with action 'type' and no text returns the "'text' is
\* required" message whether or not the selector matches an element.
C6_TypeWithoutTextIsValidationError ==
  \A c \in Calls :
    (/\ pc[c] = "done" /\ alive
     /\ req[c].op = "getElement" /\ req[c].action = "type" /\ req[c].arg = None
     /\ req[c].type \in {"className", "id", "text"}) =>
      result[c] = Str(TextRequired)

InvalidDiscriminator(r) ==
  \/ r.op = "getElement" /\ (r.type \notin {"className", "id", "text"}
                             \/ r.action \notin ElementActions)
  \/ r.op = "navigate" /\ r.type \notin NavTypes
  \/ r.op = "getSnapshot" /\ r.type \notin SnapTypes
  \/ r.op = "fillInput" /\ r.type \notin SelectorKinds

\* C7: a request whose discriminator is outside the declared enumeration makes
\* the tool return a plain string that starts "Error: Invalid" and lists the
\* legal values; the tool never returns a non-string.
C7_InvalidDiscriminatorIsString ==
  \A c \in Calls :
    (pc[c] = "done" /\ alive /\ InvalidDiscriminator(req[c])) =>
      /\ result[c].kind = "str"
      /\ Len(result[c].text) = 3
      /\ result[c].text[1] \in {"Error: Invalid type '", "Error: Invalid action '",
                                "Error: Invalid navigation type '"}

\* C8: fillInput on a selector that matches nothing returns a plain message
\* that names the resolved selector expression.
C8_UnmatchedFillNamesSelector ==
  \A c \in Calls :
    (/\ pc[c] = "done" /\ alive
     /\ req[c].op = "fillInput" /\ req[c].type \in SelectorKinds
     /\ ~Matches(CurUrl, sel[c])) =>
      /\ result[c].kind = "str"
      /\ Contains(result[c].text, sel[c])

\* The selector table: kind and raw value to query expression, nothing escaped.
Template(kind, v) ==
  CASE kind = "className"   -> <<".">> \o v
    [] kind = "id"          -> <<"#">> \o v
    [] kind = "text"        -> <<"text=">> \o v
    [] kind = "placeholder" -> <<"[placeholder='">> \o v \o <<"']">>
    [] kind = "label"       -> <<"label:text('">> \o v \o <<"') >> input">>

\* C9 as stated: for all five kinds, getElement and fillInput alike hold the
\* templated selector once the call has started.
C9_FiveKindsInBothTools ==
  \A c \in Calls :
    (pc[c] # "idle" /\ req[c].op \in {"getElement", "fillInput"}
       /\ req[c].type \in SelectorKinds) =>
      sel[c] = Template(req[c].type, req[c].selector)

\* C9 amended: fillInput builds the templated selector for all five kinds and
\* getElement for className, id and text, with no escaping; getElement given
\* placeholder or label, and either tool given any other kind, returns its
\* 'Invalid type' string at once, holding no selector and no element handle.
C9_TemplatesPerTool ==
  \A c \in Calls :
    pc[c] # "idle" =>
      /\ req[c].op = "fillInput" =>
           IF req[c].type \in SelectorKinds
           THEN sel[c] = Template(req[c].type, req[c].selector)
           ELSE /\ pc[c] = "done" /\ sel[c] = << >> /\ elem[c] = NoElem
                /\ result[c] = Str(InvalidFillType(req[c].type))
      /\ req[c].op = "getElement" =>
           IF req[c].type \in {"className", "id", "text"}
           THEN sel[c] = Template(req[c].type, req[c].selector)
           ELSE /\ pc[c] = "done" /\ sel[c] = << >> /\ elem[c] = NoElem
                /\ result[c] = Str(InvalidElementType(req[c].type))

C9_Witness ==
  /\ pc[1] = "fill" /\ req[1].type = "label" /\ req[1].selector = <<"'">>
  /\ sel[1] = <<"label:text('", "'", "') >> input">>

\* C10: nothing in this layer serializes tool calls, and getElement is not
\* atomic: a call that has its element handle is suspended before its action
\* (and a 'type' call again between clear and type), and while it is suspended
\* a navigation pending in the other slot can run.
C10_NotSerialized ==
  /\ [](\A c, d \in Calls :
          (c # d /\ pc[c] \in {"click", "clear", "type"} /\ pc[d] = "nav") =>
             ENABLED NavigateStep(d))
  /\ [][\A c \in Calls :
          /\ (pc[c] = "query" /\ elem'[c] # NoElem /\ req[c].action = "click") =>
                pc'[c] = "click" /\ pageVars' = pageVars
          /\ (pc[c] = "query" /\ elem'[c] # NoElem /\ req[c].action = "type"
                /\ req[c].arg # None) =>
                pc'[c] = "clear" /\ pageVars' = pageVars
          /\ (pc[c] = "clear" /\ pc'[c] \notin {"clear", "idle"}
                /\ BoundToRaise(c) = << >>) =>
                pc'[c] = "type" /\ field' = << >>]_vars

C10_Witness ==
  \E c, d \in Calls :
    /\ c # d
    /\ pc[c] = "type" /\ elem[c] # NoElem /\ elem[c] < gen
    /\ pc[d] = "done" /\ req[d].op = "navigate"
    /\ Head(result[d].text) = "Successfully navigated to "

====
